---- MODULE Spec2Model ----
(***************************************************************************)
(* Model of filehandler.py: the "anything to table" loader.                *)
(*                                                                         *)
(* Filenames are strings and the suffix tests are computed on them.  The   *)
(* bytes of a file are abstracted by what the delegated parsers do on      *)
(* them (a record of parser outcomes, "content").  A table (DataFrame) is  *)
(* a record holding its column set and its rows; a row is a function from  *)
(* the table's columns to cells, and every cell is a string.  The result   *)
(* of a call is a table or a raised exception.  Archive expansion is       *)
(* modelled member by member, with the Python call stack of nested         *)
(* _read_archive activations as the variable stack.                        *)
(***************************************************************************)
EXTENDS Integers, Sequences, FiniteSets, TLC

(* ---- bounds of the model ---- *)
MaxRows == 1          \* rows a delegated parser yields on success: 0..MaxRows
MaxMembers == 3       \* members listed during one call, nested archives included
MaxDepth == 2         \* nesting depth of archives
MaxPages == 3         \* pages of a PDF document
MaxSheets == 1        \* sheets / html tables / sqlite tables of one file
MaxFrames == 2        \* tables in a list handed to _concat_with_origin on its own

(* ---- configuration read at import (os.getenv with defaults) ---- *)
MAX_ARCHIVE_FILES == 2
MAX_FILE_BYTES == 1
MAX_PDF_PAGES == 2

(* ---- strings ---- *)
LowerChar(c) ==
    CASE c = "A" -> "a" [] c = "C" -> "c" [] c = "S" -> "s" [] c = "V" -> "v"
      [] c = "Z" -> "z" [] c = "I" -> "i" [] c = "P" -> "p" [] c = "T" -> "t"
      [] c = "R" -> "r" [] c = "G" -> "g"
      [] OTHER -> c

RECURSIVE lower(_)
lower(s) ==
    IF s = "" THEN "" ELSE LowerChar(SubSeq(s, 1, 1)) \o lower(SubSeq(s, 2, Len(s)))

endswith(s, suf) ==
    /\ Len(s) >= Len(suf)
    /\ SubSeq(s, Len(s) - Len(suf) + 1, Len(s)) = suf

endswith_any(s, sufs) == \E suf \in sufs : endswith(s, suf)

TAR_SUFFIXES == {".tar", ".tgz", ".tar.gz", ".tbz2", ".tar.bz2", ".txz", ".tar.xz"}

TEXT_SUFFIXES_Listed == {".txt", ".log", ".md", ".rst"}

(* The suffixes of the plain-text branch; the last one is the empty string. *)
TEXT_SUFFIXES == {".txt", ".log", ".md", ".rst", ""}

(* The branch of load_any_file_to_dataframe taken for a filename: the chain *)
(* of endswith tests in source order, first match wins.                     *)
Dispatch(filename) ==
    LET name == lower(filename) IN
    IF endswith_any(name, {".csv"}) THEN "csv"
    ELSE IF endswith_any(name, {".tsv", ".tab", ".tsc"}) THEN "tsv"
    ELSE IF endswith_any(name, {".xlsx", ".xls"}) THEN "excel"
    ELSE IF endswith(name, ".parquet") THEN "parquet"
    ELSE IF endswith(name, ".json") THEN "json"
    ELSE IF endswith_any(name, {".pdf"}) THEN "pdf"
    ELSE IF endswith_any(name, {".db", ".sqlite", ".sqlite3"}) THEN "sqlite"
    ELSE IF endswith_any(name, {".gz", ".gzip"}) THEN "gzip"
    ELSE IF endswith(name, ".zip") \/ endswith_any(name, TAR_SUFFIXES) THEN "archive"
    ELSE IF endswith_any(name, {".html", ".htm"}) THEN "html"
    ELSE IF endswith_any(name, {".xml"}) THEN "xml"
    ELSE IF endswith_any(name, {".docx"}) THEN "docx"
    ELSE IF endswith_any(name, {".png", ".jpg", ".jpeg"}) THEN "image"
    ELSE IF endswith_any(name, TEXT_SUFFIXES) THEN "text"
    ELSE "final"

(* ---- tables ---- *)
Null == "<NA>"

Table(cols, rows) == [kind |-> "table", cols |-> cols, rows |-> rows]
Raise == [kind |-> "raise", cols |-> {}, rows |-> <<>>]
EmptyTable == Table({}, <<>>)

IsEmpty(t) == t.rows = <<>> \/ t.cols = {}

(* pd.DataFrame({col: [cell], "_source": [filename]}): one row. *)
OneRow(col, cell, filename) ==
    Table({col, "_source"},
          << [x \in {col, "_source"} |-> IF x = "_source" THEN filename ELSE cell] >>)

(* df[col] = cell  /  df.assign(col=cell): the column is added or overwritten *)
(* on every row.                                                            *)
SetCol(t, col, cell) ==
    Table(t.cols \cup {col},
          [i \in 1..Len(t.rows) |->
              [x \in t.cols \cup {col} |-> IF x = col THEN cell ELSE t.rows[i][x]]])

(* The table a delegated parser yields on success: n rows under column col. *)
Parsed(col, n) ==
    Table({col}, [i \in 1..n |-> [x \in {col} |-> "r" \o ToString(i)]])

(* str(column name): integer column labels (written "#k") become "k". *)
ColStr(c) == IF Len(c) > 0 /\ SubSeq(c, 1, 1) = "#" THEN SubSeq(c, 2, Len(c)) ELSE c

StrCols(t) == {ColStr(c) : c \in t.cols}

(* The tables taken last to first. *)
RECURSIVE ConcatRows_Reversed(_, _)
ConcatRows_Reversed(frames, cols) ==
    IF frames = <<>> THEN <<>>
    ELSE LET f == Head(frames)
             widen(r) == [x \in cols |->
                            IF \E c \in f.cols : ColStr(c) = x
                            THEN r[CHOOSE c \in f.cols : ColStr(c) = x]
                            ELSE Null]
         IN ConcatRows_Reversed(Tail(frames), cols) \o [i \in 1..Len(f.rows) |-> widen(f.rows[i])]

(* The rows of the tables in list order, each widened to cols. *)
RECURSIVE ConcatRows(_, _)
ConcatRows(frames, cols) ==
    IF frames = <<>> THEN <<>>
    ELSE LET f == Head(frames)
             widen(r) == [x \in cols |->
                            IF \E c \in f.cols : ColStr(c) = x
                            THEN r[CHOOSE c \in f.cols : ColStr(c) = x]
                            ELSE Null]
         IN [i \in 1..Len(f.rows) |-> widen(f.rows[i])] \o ConcatRows(Tail(frames), cols)

(* pd.concat(..., join="inner") in place of the outer join. *)
_concat_with_origin_Inner(frames) ==
    IF frames = <<>> THEN EmptyTable
    ELSE LET cols == {x \in UNION {StrCols(frames[i]) : i \in 1..Len(frames)} :
                         \A i \in 1..Len(frames) : x \in StrCols(frames[i])}
         IN Table(cols, ConcatRows(frames, cols))

_concat_with_origin(frames) ==
    IF frames = <<>> THEN EmptyTable
    ELSE LET cols == UNION {StrCols(frames[i]) : i \in 1..Len(frames)}
         IN Table(cols, ConcatRows(frames, cols))

(* ---- decoding and sniffing ---- *)
ENCODINGS_Utf16First == <<"utf-16", "utf-8", "latin-1">>

(* for enc in ("utf-8", "utf-16", "latin-1") *)
ENCODINGS == <<"utf-8", "utf-16", "latin-1">>

(* The result of _decode_text_bytes: a string, or an exception. *)
Str(value) == [kind |-> "str", value |-> value]

(* chardet.detect(b).get("encoding"), then b.decode(guess, errors="replace"): *)
(* b.guess is "raise" (detect raises), "none" (no guess), "ok" (the lossy     *)
(* decode under the guess succeeds) or "bad" (it raises).                     *)
Detector(caps, b) ==
    IF caps.chardet /\ b.guess = "ok" THEN "text/guess-replace"
    ELSE "text/utf-8-replace"

(* b.dec is the set of encodings under which the bytes decode. *)
RECURSIVE DecodeFrom(_, _, _)
DecodeFrom(caps, b, k) ==
    IF k > Len(ENCODINGS) THEN Detector(caps, b)
    ELSE IF ENCODINGS[k] \in b.dec THEN "text/" \o ENCODINGS[k]
    ELSE DecodeFrom(caps, b, k + 1)

_decode_text_bytes(caps, b) == DecodeFrom(caps, b, 1)

(* b.sniff is the delimiter csv.Sniffer finds ("" when it raises); b.chars *)
(* is the set of candidate characters present in the sample.               *)
_sniff_csv_delimiter(b) ==
    IF b.sniff # "" THEN b.sniff
    ELSE IF "\t" \in b.chars THEN "\t"
    ELSE IF ";" \in b.chars THEN ";"
    ELSE IF "|" \in b.chars THEN "|"
    ELSE IF "," \in b.chars THEN ","
    ELSE ""

(* ---- the plain-text ladder (load_any_file_to_dataframe, text branch) ---- *)
(* b.sep is the outcome of pd.read_csv(StringIO(txt), sep=delim), b.n its   *)
(* number of rows.                                                          *)
PlainText(caps, b, filename) ==
    LET txt == _decode_text_bytes(caps, b)
        delim == _sniff_csv_delimiter(b)
    IN IF delim # "" /\ b.sep = "ok"
       THEN SetCol(Parsed("c", b.n), "_source", filename)
       ELSE OneRow("text", txt, filename)

(* ---- handlers ---- *)
(* b.open is the outcome of the handler's first delegated call, b.alt and  *)
(* b.alt2 of the second and third; b.m counts sheets / tables.             *)
SheetFrames(b, filename) ==
    [k \in 1..b.m |->
        SetCol(SetCol(Parsed("c", b.n), "_sheet", "s" \o ToString(k)), "_source", filename)]

_read_excel_all_sheets(b, filename) ==
    IF b.open # "ok" /\ b.alt # "ok" THEN Raise
    ELSE LET frames == SheetFrames(b, filename)
         IN IF frames # <<>> THEN _concat_with_origin(frames) ELSE EmptyTable

(* One page of a PDF: p.tab is extract_tables ("err" raises, "none" yields *)
(* no table, "some" yields one table of p.n rows), p.txt is extract_text.  *)
PageFrame_ZeroBased(p, i, filename) ==
    SetCol(SetCol(Parsed("#0", p.n), "_page", ToString(i - 1)), "_source", filename)

(* df = pd.DataFrame(t); df["_page"] = i + 1 (i from 0); df["_source"] = filename *)
PageFrame(p, i, filename) ==
    SetCol(SetCol(Parsed("#0", p.n), "_page", ToString(i)), "_source", filename)

PageText(i, filename) ==
    [x \in {"page", "text", "_source"} |->
        IF x = "page" THEN ToString(i)
        ELSE IF x = "text" THEN "pagetext" ELSE filename]

(* The loop over pdf.pages[:MAX_PDF_PAGES]; acc holds frames, text_pages    *)
(* and whether an exception left the loop.                                  *)
RECURSIVE PdfPages(_, _, _, _)
PdfPages(pages, i, filename, acc) ==
    IF i > Len(pages) \/ acc.failed THEN acc
    ELSE LET p == pages[i] IN
         IF p.tab = "some"
         THEN PdfPages(pages, i + 1, filename,
                       [acc EXCEPT !.frames = Append(@, PageFrame(p, i, filename))])
         ELSE IF p.txt = "ok"
         THEN PdfPages(pages, i + 1, filename,
                       [acc EXCEPT !.text_pages = Append(@, PageText(i, filename))])
         ELSE [acc EXCEPT !.failed = TRUE]

PdfPlaceholder(filename) == OneRow("text", "<pdf content>", filename)

_read_pdf_KeepPartial(caps, b, filename) ==
    IF caps.pdfplumber /\ b.open = "ok"
    THEN LET examined == SubSeq(b.pages, 1, IF Len(b.pages) < MAX_PDF_PAGES
                                            THEN Len(b.pages) ELSE MAX_PDF_PAGES)
             acc == PdfPages(examined, 1, filename,
                             [frames |-> <<>>, text_pages |-> <<>>, failed |-> FALSE])
         IN IF acc.frames # <<>> THEN _concat_with_origin(acc.frames)
            ELSE IF acc.failed THEN PdfPlaceholder(filename)
            ELSE Table(IF acc.text_pages = <<>> THEN {} ELSE {"page", "text", "_source"},
                       acc.text_pages)
    ELSE PdfPlaceholder(filename)

_read_pdf(caps, b, filename) ==
    IF caps.pdfplumber /\ b.open = "ok"
    THEN LET examined == SubSeq(b.pages, 1, IF Len(b.pages) < MAX_PDF_PAGES
                                            THEN Len(b.pages) ELSE MAX_PDF_PAGES)
             acc == PdfPages(examined, 1, filename,
                             [frames |-> <<>>, text_pages |-> <<>>, failed |-> FALSE])
         IN IF acc.failed THEN PdfPlaceholder(filename)
            ELSE IF acc.frames # <<>> THEN _concat_with_origin(acc.frames)
            ELSE Table(IF acc.text_pages = <<>> THEN {} ELSE {"page", "text", "_source"},
                       acc.text_pages)
    ELSE PdfPlaceholder(filename)

(* b.open: connect and list the tables; b.tbls: per table, the outcome of  *)
(* read_sql_query.                                                         *)
RECURSIVE SqlFrames(_, _, _)
SqlFrames(b, k, filename) ==
    IF k > Len(b.tbls) THEN <<>>
    ELSE (IF b.tbls[k] = "ok"
          THEN << SetCol(SetCol(Parsed("c", b.n), "_table", "t" \o ToString(k)),
                         "_source", filename) >>
          ELSE <<>>) \o SqlFrames(b, k + 1, filename)

_read_sqlite(b, filename) ==
    IF b.open # "ok" THEN Raise
    ELSE LET frames == SqlFrames(b, 1, filename)
         IN IF frames # <<>> THEN _concat_with_origin(frames)
            ELSE Table({"_source"}, << [x \in {"_source"} |-> filename] >>)

HtmlFrames(b, filename) ==
    [k \in 1..b.m |->
        SetCol(SetCol(Parsed("c", b.n), "_html_table_index", ToString(k - 1)),
               "_source", filename)]

_read_html_text(caps, b, filename) ==
    LET text == _decode_text_bytes(caps, b) IN
    IF b.open = "ok" /\ b.m > 0 THEN _concat_with_origin(HtmlFrames(b, filename))
    ELSE IF caps.bs4 /\ b.alt = "ok" THEN OneRow("text", "pagetext", filename)
    ELSE OneRow("text", text, filename)

_read_xml(caps, b, filename) ==
    LET txt == _decode_text_bytes(caps, b) IN
    IF caps.xmltodict /\ b.open = "ok"
    THEN SetCol(Parsed("c", 1), "_source", filename)
    ELSE OneRow("text", txt, filename)

_read_docx(caps, b, filename) ==
    IF ~caps.docx THEN OneRow("text", "<docx content>", filename)
    ELSE IF b.open # "ok" THEN Raise
    ELSE LET paras == Parsed("paragraph", b.n)
         IN Table({"paragraph", "_source"},
                  [i \in 1..b.n |->
                      [x \in {"paragraph", "_source"} |->
                          IF x = "_source" THEN filename ELSE paras.rows[i][x]]])

(* b.open: gzip.decompress; b.alt: read_csv of the raw bytes; b.alt2:      *)
(* read_json of the raw bytes; then the sniffed parse of the decoded text. *)
_read_gzip_singlefile(caps, b, inner_name_hint, filename) ==
    IF b.open # "ok" THEN OneRow("text", "<gz content>", filename)
    ELSE IF b.alt = "ok" THEN SetCol(Parsed("c", b.n), "_source", filename)
    ELSE IF b.alt2 = "ok" THEN SetCol(Parsed("c", b.n), "_source", filename)
    ELSE PlainText(caps, b, filename)

(* b.open: pd.read_json ("verr" is a ValueError, "err" any other           *)
(* exception); b.alt: json.loads and json_normalize.                       *)
ReadJson(caps, b, filename) ==
    IF b.open = "ok" THEN SetCol(Parsed("c", b.n), "_source", filename)
    ELSE IF b.open = "verr"
    THEN (IF b.alt = "ok" THEN SetCol(Parsed("c", b.n), "_source", filename)
          ELSE OneRow("text", _decode_text_bytes(caps, b), filename))
    ELSE Raise

ReadImage(b, filename) ==
    IF b.open = "ok" THEN OneRow("image", "<PIL image>", filename)
    ELSE OneRow("text", "<image>", filename)

(* pd.read_csv / pd.read_parquet followed by .assign(_source=filename),    *)
(* outside any try.                                                        *)
ReadStrict(b, filename) ==
    IF b.open = "ok" THEN SetCol(Parsed("c", b.n), "_source", filename) ELSE Raise

(* The result of load_any_file_to_dataframe on a file that is not handed   *)
(* to _read_archive.                                                       *)
LoadLeaf(caps, b, filename) ==
    LET kind == Dispatch(filename) IN
    CASE kind = "csv" -> ReadStrict(b, filename)
      [] kind = "tsv" -> ReadStrict(b, filename)
      [] kind = "excel" -> _read_excel_all_sheets(b, filename)
      [] kind = "parquet" -> ReadStrict(b, filename)
      [] kind = "json" -> ReadJson(caps, b, filename)
      [] kind = "pdf" -> _read_pdf(caps, b, filename)
      [] kind = "sqlite" -> _read_sqlite(b, filename)
      [] kind = "gzip" ->
            _read_gzip_singlefile(caps, b, SubSeq(filename, 1, Len(filename) - 3), filename)
      [] kind = "html" -> _read_html_text(caps, b, filename)
      [] kind = "xml" -> _read_xml(caps, b, filename)
      [] kind = "docx" -> _read_docx(caps, b, filename)
      [] kind = "image" -> ReadImage(b, filename)
      [] kind = "text" -> PlainText(caps, b, filename)
      [] OTHER -> OneRow("text", _decode_text_bytes(caps, b), filename)

(* ---- inputs ---- *)
FileNames ==
    {"", "noext", "data.unknownext", "a.csv", "A.CSV", "b.tsv", "b.tab", "b.tsc", "c.xlsx",
     "c.xls", "p.parquet", "j.json", "d.pdf", "q.db", "q.sqlite", "q.sqlite3",
     "g.gz", "g.gzip", "z.zip", "t.tgz", "t.tar.gz",
     "h.html", "h.htm", "x.xml", "w.docx",
     "i.png", "i.jpg", "i.jpeg", "n.txt", "n.log", "n.md", "n.rst"}

MemberNames == {"inner.csv", "note.txt", "in.zip", "in.tar"}

Sizes == {MAX_FILE_BYTES, MAX_FILE_BYTES + 1}

OkErr == {"ok", "err"}

RECURSIVE SeqsUpTo(_, _)
SeqsUpTo(S, n) ==
    IF n = 0 THEN {<<>>}
    ELSE LET shorter == SeqsUpTo(S, n - 1)
         IN shorter \cup {Append(q, x) : q \in {r \in shorter : Len(r) = n - 1}, x \in S}

Pages == [tab : {"err", "none", "some"}, txt : OkErr, n : {MaxRows}]

Bytes0 ==
    [open |-> "ok", alt |-> "ok", alt2 |-> "ok", sep |-> "ok", n |-> 0, m |-> 0,
     pages |-> <<>>, tbls |-> <<>>, sniff |-> "", chars |-> {}, dec |-> {"latin-1"},
     guess |-> "none"]

(* latin-1 decodes every byte sequence. *)
DecSets == {{"utf-8", "utf-16", "latin-1"}, {"utf-16", "latin-1"}, {"latin-1"}}

SniffCases ==
    {[sniff |-> ";", chars |-> {";"}], [sniff |-> "", chars |-> {}],
     [sniff |-> "", chars |-> {","}], [sniff |-> "", chars |-> {"\t", ","}]}

TextBytes ==
    {[Bytes0 EXCEPT !.dec = d, !.sniff = s.sniff, !.chars = s.chars, !.sep = p, !.n = k] :
        d \in DecSets, s \in SniffCases, p \in OkErr, k \in 0..MaxRows}

(* The byte sequences, told apart by what the parsers consulted for a file *)
(* of this kind do on them.                                                *)
Contents(kind) ==
    CASE kind \in {"csv", "tsv", "parquet"} ->
            {[Bytes0 EXCEPT !.open = o, !.n = k] : o \in OkErr, k \in 0..MaxRows}
      [] kind = "excel" ->
            {[Bytes0 EXCEPT !.open = o, !.alt = a, !.m = j, !.n = k] :
                o \in OkErr, a \in OkErr, j \in 0..MaxSheets, k \in 0..MaxRows}
      [] kind = "json" ->
            {[Bytes0 EXCEPT !.open = o, !.alt = a, !.n = k, !.dec = d] :
                o \in {"ok", "verr", "err"}, a \in OkErr, k \in 0..MaxRows, d \in DecSets}
      [] kind = "pdf" ->
            {[Bytes0 EXCEPT !.open = o, !.pages = ps] :
                o \in OkErr, ps \in SeqsUpTo(Pages, MaxPages)}
      [] kind = "sqlite" ->
            {[Bytes0 EXCEPT !.open = o, !.tbls = ts, !.n = k] :
                o \in OkErr, ts \in SeqsUpTo(OkErr, MaxSheets), k \in 0..MaxRows}
      [] kind = "gzip" ->
            {[t EXCEPT !.open = o, !.alt = a, !.alt2 = a2] :
                t \in TextBytes, o \in OkErr, a \in OkErr, a2 \in OkErr}
      [] kind = "archive" ->
            {[Bytes0 EXCEPT !.open = o, !.m = j] : o \in OkErr, j \in 0..MaxMembers}
      [] kind = "html" ->
            {[Bytes0 EXCEPT !.open = o, !.alt = a, !.m = j, !.n = k, !.dec = d] :
                o \in OkErr, a \in OkErr, j \in 0..MaxSheets, k \in 0..MaxRows,
                d \in DecSets}
      [] kind = "xml" ->
            {[Bytes0 EXCEPT !.open = o, !.dec = d] : o \in OkErr, d \in DecSets}
      [] kind = "docx" ->
            {[Bytes0 EXCEPT !.open = o, !.n = k] : o \in OkErr, k \in 0..MaxRows}
      [] kind = "image" -> {[Bytes0 EXCEPT !.open = o] : o \in OkErr}
      [] OTHER -> TextBytes

(* ---- state ---- *)
VARIABLES
    caps,      \* the capability flags set at import
    pc,        \* "idle", "running" (inside _read_archive), "done"
    call,      \* the arguments of the running top-level call
    stack,     \* the activations of _read_archive, outermost first
    result,    \* what the top-level call returned or raised
    listed,    \* number of members listed by the archives opened during the call
    visited,   \* history: declared size of each member whose size was tested,
               \* and whether the member was then read
    contributed \* history: the members behind the frames the outermost
               \* activation merged when it returned

vars == <<caps, pc, call, stack, result, listed, visited, contributed>>

NoResult == [kind |-> "none", cols |-> {}, rows |-> <<>>]
NoCall == [content |-> Bytes0, filename |-> "", handler |-> ""]
(* A member by its name, declared size and position in the member list;   *)
(* (history) the rows its load contributed and, for a nested archive, the *)
(* members its own expansion merged, or the number of frames it had       *)
(* accumulated when an exception ended it.                                *)
NoMember == [name |-> "", size |-> 0, pos |-> 0, rows |-> 0, inner |-> <<>>,
             dropped |-> 0]

(* No handler consults two flags whose effects interact, so the runtimes   *)
(* with every capability present and with none cover each handler's cases. *)
(* The module also imports pdfplumber unguarded (line 14); the flag is     *)
(* kept free because _read_pdf tests it and it can be rebound.             *)
Capabilities ==
    {[pdfplumber |-> a, xmltodict |-> a, bs4 |-> a, docx |-> a, chardet |-> a] :
        a \in BOOLEAN}

Init ==
    /\ caps \in Capabilities
    /\ pc = "idle"
    /\ call = NoCall
    /\ stack = <<>>
    /\ result = NoResult
    /\ listed = 0
    /\ visited = {}
    /\ contributed = <<>>

(* ---- _read_archive ---- *)
ArchivePlaceholder(filename) == OneRow("text", "<archive content>", filename)

Family(filename) ==
    LET lower_ == lower(filename) IN
    IF endswith(lower_, ".zip") THEN "zip"
    ELSE IF endswith_any(lower_, TAR_SUFFIXES) THEN "tar"
    ELSE "none"

(* The frame of one activation: the members not yet visited, the position  *)
(* of the loop in the member list, the counter,                            *)
(* the accumulated frames, the member whose recursive load is running,     *)
(* (history) the member each accumulated frame came from and (history)     *)
(* the number of members read and handed to the recursive load.            *)
Frame(b, filename) ==
    [filename |-> filename, family |-> Family(filename), left |-> b.m, idx |-> 0,
     processed |-> 0, frames |-> <<>>, cur |-> NoMember, origin |-> <<>>,
     expanded |-> 0]

Came(member, df) == [member EXCEPT !.rows = Len(df.rows)]

Accumulate_KeepSource(f, df, member) ==
    IF IsEmpty(df) THEN f
    ELSE [f EXCEPT !.frames = Append(@, SetCol(df, "_file", member.name)),
                   !.processed = @ + 1,
                   !.origin = Append(@, Came(member, df))]

Accumulate_Swapped(f, df, member) ==
    IF IsEmpty(df) THEN f
    ELSE [f EXCEPT !.frames = Append(@, SetCol(SetCol(df, "_file", f.filename),
                                               "_source", member.name)),
                   !.processed = @ + 1,
                   !.origin = Append(@, Came(member, df))]

(* A table that already carries _file keeps it. *)
Accumulate_KeepInner(f, df, member) ==
    IF IsEmpty(df) THEN f
    ELSE [f EXCEPT !.frames = Append(@, SetCol(IF "_file" \in df.cols THEN df
                                               ELSE SetCol(df, "_file", member.name),
                                               "_source", f.filename)),
                   !.processed = @ + 1,
                   !.origin = Append(@, Came(member, df))]

(* if not df.empty: tag, accumulate, count. *)
Accumulate(f, df, member) ==
    IF IsEmpty(df) THEN f
    ELSE [f EXCEPT !.frames = Append(@, SetCol(SetCol(df, "_file", member.name),
                                               "_source", f.filename)),
                   !.processed = @ + 1,
                   !.origin = Append(@, Came(member, df))]

(* The outcome out of a load reaches the activations stk that wait for it: *)
(* an exception leaves a zip activation and is caught by a tar activation, *)
(* a table is accumulated by the innermost one.                            *)
(* (history) The activation that waits for a nested expansion learns how  *)
(* many frames the nested expansion had when an exception ended it.       *)
Dropped(stk, n) ==
    IF stk = <<>> THEN stk
    ELSE [stk EXCEPT ![Len(stk)].cur.dropped = n]

(* An exception in a tar activation leaves its frames behind the merge.   *)
RECURSIVE Return_KeepPartial(_, _)
Return_KeepPartial(stk, out) ==
    IF stk = <<>> THEN [stack |-> <<>>, result |-> out, pc |-> "done"]
    ELSE LET f == stk[Len(stk)]
             rest == SubSeq(stk, 1, Len(stk) - 1)
         IN IF out.kind = "raise"
            THEN IF f.family = "zip" THEN Return_KeepPartial(rest, Raise)
                 ELSE Return_KeepPartial(Dropped(rest, Len(f.frames)),
                                         IF f.frames # <<>> THEN _concat_with_origin(f.frames)
                                         ELSE ArchivePlaceholder(f.filename))
            ELSE [stack |-> Append(rest, [Accumulate(f, out, f.cur) EXCEPT !.cur = NoMember]),
                  result |-> NoResult, pc |-> "running"]

RECURSIVE Return(_, _)
Return(stk, out) ==
    IF stk = <<>> THEN [stack |-> <<>>, result |-> out, pc |-> "done"]
    ELSE LET f == stk[Len(stk)]
             rest == SubSeq(stk, 1, Len(stk) - 1)
         IN IF out.kind = "raise"
            THEN IF f.family = "zip" THEN Return(rest, Raise)
                 ELSE Return(Dropped(rest, Len(f.frames)), ArchivePlaceholder(f.filename))
            ELSE [stack |-> Append(rest, [Accumulate(f, out, f.cur) EXCEPT !.cur = NoMember]),
                  result |-> NoResult, pc |-> "running"]

(* Entry of _read_archive under the activations stk. *)
Open(stk, b, filename) ==
    LET fam == Family(filename) IN
    IF fam = "zip"
    THEN IF b.open = "ok"
         THEN [stack |-> Append(stk, Frame(b, filename)), result |-> NoResult, pc |-> "running"]
         ELSE Return(stk, Raise)
    ELSE IF fam = "tar" /\ b.open = "ok"
    THEN [stack |-> Append(stk, Frame(b, filename)), result |-> NoResult, pc |-> "running"]
    ELSE Return(stk, ArchivePlaceholder(filename))

(* The members listed so far, once the archive b has been opened. *)
Listed(n, b, filename) ==
    IF b.open = "ok" /\ Family(filename) # "none" THEN n + b.m ELSE n

Goto(next) ==
    /\ stack' = next.stack
    /\ result' = next.result
    /\ pc' = next.pc

Top == stack[Len(stack)]
Below == SubSeq(stack, 1, Len(stack) - 1)

QuotaReached_OffByOne(f) == f.processed > MAX_ARCHIVE_FILES

(* if processed >= MAX_ARCHIVE_FILES: break *)
QuotaReached(f) == f.processed >= MAX_ARCHIVE_FILES

TooBig_Never(size) == FALSE

(* if info.file_size and info.file_size > MAX_FILE_BYTES: continue *)
TooBig(size) == size # 0 /\ size > MAX_FILE_BYTES

(* (history) The activation that waits for a nested expansion learns the  *)
(* members the nested expansion merged.                                   *)
Merged(stk, origin) ==
    IF stk = <<>> THEN stk
    ELSE [stk EXCEPT ![Len(stk)].cur.inner = origin]

(* return _concat_with_origin(frames), after the loop or after its break. *)
Finish ==
    /\ Goto(Return(Merged(Below, Top.origin), _concat_with_origin(Top.frames)))
    /\ contributed' = IF Len(stack) = 1 THEN Top.origin ELSE contributed

(* ---- actions ---- *)
(* load_any_file_to_dataframe on a file of a kind other than archive. *)
LoadFile ==
    /\ pc = "idle"
    /\ \E filename \in FileNames :
         /\ Dispatch(filename) # "archive"
         /\ \E b \in Contents(Dispatch(filename)) :
              /\ call' = [content |-> b, filename |-> filename, handler |-> Dispatch(filename)]
              /\ result' = LoadLeaf(caps, b, filename)
    /\ pc' = "done"
    /\ UNCHANGED <<caps, stack, listed, visited, contributed>>

(* load_any_file_to_dataframe on an archive name: _read_archive opens it. *)
LoadArchive ==
    /\ pc = "idle"
    /\ \E filename \in FileNames :
         /\ Dispatch(filename) = "archive"
         /\ \E b \in Contents("archive") :
              /\ call' = [content |-> b, filename |-> filename, handler |-> Dispatch(filename)]
              /\ Goto(Open(<<>>, b, filename))
              /\ listed' = Listed(0, b, filename)
    /\ UNCHANGED <<caps, visited, contributed>>

(* The member list is exhausted: merge and return. *)
EndOfMembers ==
    /\ pc = "running"
    /\ Top.left = 0
    /\ Finish
    /\ UNCHANGED <<caps, call, listed, visited>>

(* The quota is used up while members remain: break, merge and return. *)
MemberBreak ==
    /\ pc = "running"
    /\ Top.left > 0
    /\ QuotaReached(Top)
    /\ Finish
    /\ UNCHANGED <<caps, call, listed, visited>>

Visit(f) == [f EXCEPT !.left = @ - 1, !.idx = @ + 1]

(* The member was read; the recursive load of its bytes is running. *)
Expand(f, name, size) ==
    [Visit(f) EXCEPT !.cur = [NoMember EXCEPT !.name = name, !.size = size,
                                              !.pos = f.idx + 1],
                     !.expanded = @ + 1]

(* A directory entry (zip) or an entry that is not a regular file (tar). *)
MemberSkipDir ==
    /\ pc = "running"
    /\ Top.left > 0
    /\ ~QuotaReached(Top)
    /\ stack' = Append(Below, Visit(Top))
    /\ UNCHANGED <<caps, pc, call, result, listed, visited, contributed>>

(* A member whose declared size is over MAX_FILE_BYTES. *)
MemberSkipBig ==
    /\ pc = "running"
    /\ Top.left > 0
    /\ ~QuotaReached(Top)
    /\ \E size \in Sizes :
         /\ TooBig(size)
         /\ visited' = visited \cup {[size |-> size, read |-> FALSE]}
         /\ stack' = Append(Below, Visit(Top))
    /\ UNCHANGED <<caps, pc, call, result, listed, contributed>>

(* Reading the member fails: zf.read raises (skipped), tf.extractfile      *)
(* returns None (skipped), or extractfile / read raises in a tar (caught   *)
(* by the handler's except).                                               *)
MemberUnreadable ==
    /\ pc = "running"
    /\ Top.left > 0
    /\ ~QuotaReached(Top)
    /\ \E size \in Sizes, how \in {"err", "none"} :
         /\ ~TooBig(size)
         /\ Top.family = "zip" => how = "err"
         /\ visited' = visited \cup {[size |-> size, read |-> TRUE]}
         /\ IF Top.family = "tar" /\ how = "err"
            THEN Goto(Return(Dropped(Below, Len(Top.frames)),
                             ArchivePlaceholder(Top.filename)))
            ELSE /\ stack' = Append(Below, Visit(Top))
                 /\ UNCHANGED <<pc, result>>
    /\ UNCHANGED <<caps, call, listed, contributed>>

(* The member is read and loaded by a handler other than _read_archive. *)
MemberFile ==
    /\ pc = "running"
    /\ Top.left > 0
    /\ ~QuotaReached(Top)
    /\ \E name \in MemberNames, size \in Sizes :
         /\ ~TooBig(size)
         /\ Dispatch(name) # "archive"
         /\ visited' = visited \cup {[size |-> size, read |-> TRUE]}
         /\ \E b \in Contents(Dispatch(name)) :
              LET waiting == Expand(Top, name, size)
              IN Goto(Return(Append(Below, waiting), LoadLeaf(caps, b, name)))
    /\ UNCHANGED <<caps, call, listed, contributed>>

(* The member is itself an archive: the recursive load enters _read_archive. *)
MemberArchive ==
    /\ pc = "running"
    /\ Top.left > 0
    /\ ~QuotaReached(Top)
    /\ Len(stack) < MaxDepth
    /\ \E name \in MemberNames, size \in Sizes :
         /\ ~TooBig(size)
         /\ Dispatch(name) = "archive"
         /\ visited' = visited \cup {[size |-> size, read |-> TRUE]}
         /\ \E b \in Contents("archive") :
              LET waiting == Expand(Top, name, size)
              IN /\ listed + b.m <= MaxMembers
                 /\ Goto(Open(Append(Below, waiting), b, name))
                 /\ listed' = Listed(listed, b, name)
    /\ UNCHANGED <<caps, call, contributed>>

Next ==
    \/ LoadFile
    \/ LoadArchive
    \/ EndOfMembers
    \/ MemberBreak
    \/ MemberSkipDir
    \/ MemberSkipBig
    \/ MemberUnreadable
    \/ MemberFile
    \/ MemberArchive

Spec == Init /\ [][Next]_vars

(* ---- the helper functions called on their own ---- *)
SampleCols == {{"a", "b"}, {"b", "c"}, {"#0", "a"}, {"0"}}

(* A table of n rows whose cells name the table, the column and the row. *)
Sample(tag, cols, n) ==
    Table(cols, [i \in 1..n |-> [x \in cols |-> tag \o "." \o x \o "." \o ToString(i)]])

SampleTables == {Sample(t, c, n) : t \in {"x", "y"}, c \in SampleCols, n \in 0..MaxRows}

(* Byte sequences by the encodings that decode them and by what the        *)
(* detector does on them.                                                  *)
DecodeInputs ==
    {[Bytes0 EXCEPT !.dec = d, !.guess = g] :
        d \in DecSets \cup {{"utf-8", "latin-1"}},
        g \in {"raise", "none", "ok", "bad"}}

(* A handler's exit: what it returned or raised, and its temporary file    *)
(* ("none": never created, "deleted", "left": still on disk).              *)
Exit(out, tmp) == [kind |-> "exit", out |-> out, tmp |-> tmp]

(* finally: try: os.unlink(tmp.name) / except Exception: pass.  The unlink *)
(* raises when a handle on the file is still open (held) and the platform  *)
(* refuses to remove an open file (locks); the exception is swallowed.     *)
Unlink(held, locks) == IF held /\ locks THEN "left" ELSE "deleted"

(* _read_sqlite with its temporary file.  e.write: tmp.write / flush /     *)
(* close; a failure leaves tmp open.  A failing cur.execute leaves conn,   *)
(* which holds the file, open: conn.close() is on the normal path only.    *)
SqliteRun(e, filename) ==
    IF e.write # "ok" THEN Exit(Raise, Unlink(TRUE, e.locks))
    ELSE IF e.file.open # "ok" THEN Exit(_read_sqlite(e.file, filename), Unlink(TRUE, e.locks))
    ELSE Exit(_read_sqlite(e.file, filename), Unlink(FALSE, e.locks))

(* _read_docx with its temporary file: none is created when the reader is  *)
(* unavailable; docx.Document closes the file whether it succeeds or not.  *)
DocxRun(c, e, filename) ==
    IF ~c.docx THEN Exit(_read_docx(c, e.file, filename), "none")
    ELSE IF e.write # "ok" THEN Exit(Raise, Unlink(TRUE, e.locks))
    ELSE Exit(_read_docx(c, e.file, filename), Unlink(FALSE, e.locks))

(* The bytes of a call together with the environment of its temporary     *)
(* file.                                                                   *)
TmpInputs(kind) ==
    {[file |-> b, write |-> w, locks |-> l] :
        b \in Contents(kind), w \in OkErr, l \in BOOLEAN}

UnitInit ==
    /\ caps \in Capabilities
    /\ pc = "idle"
    /\ call \in {[content |-> [frames |-> fs], filename |-> "", handler |-> "_concat_with_origin"] :
                    fs \in SeqsUpTo(SampleTables, MaxFrames)}
              \cup {[content |-> b, filename |-> "", handler |-> "_decode_text_bytes"] :
                       b \in DecodeInputs}
              \cup {[content |-> e, filename |-> "s.db", handler |-> "_read_sqlite"] :
                       e \in TmpInputs("sqlite")}
              \cup {[content |-> e, filename |-> "w.docx", handler |-> "_read_docx"] :
                       e \in TmpInputs("docx")}
    /\ stack = <<>>
    /\ result = NoResult
    /\ listed = 0
    /\ visited = {}
    /\ contributed = <<>>

ConcatCall ==
    /\ pc = "idle"
    /\ call.handler = "_concat_with_origin"
    /\ result' = _concat_with_origin(call.content.frames)
    /\ pc' = "done"
    /\ UNCHANGED <<caps, call, stack, listed, visited, contributed>>

DecodeCall ==
    /\ pc = "idle"
    /\ call.handler = "_decode_text_bytes"
    /\ result' = Str(_decode_text_bytes(caps, call.content))
    /\ pc' = "done"
    /\ UNCHANGED <<caps, call, stack, listed, visited, contributed>>

SqliteCall ==
    /\ pc = "idle"
    /\ call.handler = "_read_sqlite"
    /\ result' = SqliteRun(call.content, call.filename)
    /\ pc' = "done"
    /\ UNCHANGED <<caps, call, stack, listed, visited, contributed>>

DocxCall ==
    /\ pc = "idle"
    /\ call.handler = "_read_docx"
    /\ result' = DocxRun(caps, call.content, call.filename)
    /\ pc' = "done"
    /\ UNCHANGED <<caps, call, stack, listed, visited, contributed>>

UnitNext ==
    \/ ConcatCall
    \/ DecodeCall
    \/ SqliteCall
    \/ DocxCall

UnitSpec == UnitInit /\ [][UnitNext]_vars

TypeOK ==
    /\ pc \in {"idle", "running", "done"}
    /\ result.kind \in {"none", "table", "raise", "str", "exit"}
    /\ (pc = "running") <=> (stack # <<>>)
    /\ (pc = "done") <=> (result.kind # "none")

(* ---- properties ---- *)
Examined(b) ==
    1..(IF Len(b.pages) < MAX_PDF_PAGES THEN Len(b.pages) ELSE MAX_PDF_PAGES)

IsPlaceholder(t, marker, filename) ==
    /\ t.kind = "table"
    /\ t.cols = {"text", "_source"}
    /\ Len(t.rows) = 1
    /\ t.rows[1]["text"] = marker
    /\ t.rows[1]["_source"] = filename

(* The suffix rules of the dispatch chain, each with the branch it names. *)
SuffixRules ==
    {[suffix |-> x, kind |-> "csv"] : x \in {".csv"}}
    \cup {[suffix |-> x, kind |-> "tsv"] : x \in {".tsv", ".tab", ".tsc"}}
    \cup {[suffix |-> x, kind |-> "excel"] : x \in {".xlsx", ".xls"}}
    \cup {[suffix |-> x, kind |-> "parquet"] : x \in {".parquet"}}
    \cup {[suffix |-> x, kind |-> "json"] : x \in {".json"}}
    \cup {[suffix |-> x, kind |-> "pdf"] : x \in {".pdf"}}
    \cup {[suffix |-> x, kind |-> "sqlite"] : x \in {".db", ".sqlite", ".sqlite3"}}
    \cup {[suffix |-> x, kind |-> "gzip"] : x \in {".gz", ".gzip"}}
    \cup {[suffix |-> x, kind |-> "archive"] : x \in {".zip"} \cup TAR_SUFFIXES}
    \cup {[suffix |-> x, kind |-> "html"] : x \in {".html", ".htm"}}
    \cup {[suffix |-> x, kind |-> "xml"] : x \in {".xml"}}
    \cup {[suffix |-> x, kind |-> "docx"] : x \in {".docx"}}
    \cup {[suffix |-> x, kind |-> "image"] : x \in {".png", ".jpg", ".jpeg"}}
    \cup {[suffix |-> x, kind |-> "text"] : x \in {".txt", ".log", ".md", ".rst", ""}}

Matching(name) == {r \in SuffixRules : endswith(name, r.suffix)}

LongestRule(name) ==
    CHOOSE r \in Matching(name) : \A q \in Matching(name) : Len(q.suffix) <= Len(r.suffix)

Unrecognised(filename) ==
    \A r \in Matching(lower(filename)) : r.suffix = ""

(* C1: load returns a table for every content and filename; no exception   *)
(* leaves the top-level call.                                               *)
C1_LoadNeverRaises == result.kind # "raise"

(* C2: every row of a returned non-empty table has _source equal to the    *)
(* filename argument of the call, whichever handler or rung produced it.   *)
C2_SourceIsFilename ==
    (pc = "done" /\ result.kind = "table" /\ result.rows # <<>>) =>
        /\ "_source" \in result.cols
        /\ \A i \in 1..Len(result.rows) : result.rows[i]["_source"] = call.filename

C2_Witness ==
    /\ pc = "done"
    /\ call.handler = "archive"
    /\ result.kind = "table"
    /\ Len(result.rows) >= 2
    /\ \E i \in 1..Len(contributed) : Dispatch(contributed[i].name) = "archive"

(* C3: in every archive expansion the processed counter stays at or below  *)
(* MAX_ARCHIVE_FILES at every step, and the returned table carries at most *)
(* MAX_ARCHIVE_FILES distinct _file values.                                *)
C3_QuotaBound ==
    /\ \A k \in 1..Len(stack) :
          /\ stack[k].processed <= MAX_ARCHIVE_FILES
          /\ Len(stack[k].frames) <= MAX_ARCHIVE_FILES
    /\ (pc = "done" /\ result.kind = "table" /\ "_file" \in result.cols) =>
          Cardinality({result.rows[i]["_file"] : i \in 1..Len(result.rows)})
              <= MAX_ARCHIVE_FILES

C3_Witness ==
    /\ pc = "running"
    /\ Top.processed = MAX_ARCHIVE_FILES
    /\ Top.left > 0

(* C4: a member whose declared size is over MAX_FILE_BYTES is never read   *)
(* and stands behind no accumulated frame; the loop goes on after it.      *)
C4_BigMemberNeverRead ==
    /\ \A e \in visited : e.size > MAX_FILE_BYTES => ~e.read
    /\ \A k \in 1..Len(stack) : \A j \in 1..Len(stack[k].origin) :
          stack[k].origin[j].size <= MAX_FILE_BYTES
    /\ \A j \in 1..Len(contributed) : contributed[j].size <= MAX_FILE_BYTES

C4_Witness ==
    /\ pc = "done"
    /\ listed = 2
    /\ visited = {[size |-> MAX_FILE_BYTES + 1, read |-> FALSE],
                  [size |-> MAX_FILE_BYTES, read |-> TRUE]}
    /\ Len(contributed) = 1
    /\ contributed[1].pos = 2
    /\ result.kind = "table"
    /\ result.rows # <<>>

(* C5: the rule with the longest matching suffix decides the handler; in   *)
(* particular a name ending in .tar.gz goes to the archive handler.        *)
C5_LongestSuffixWins ==
    pc # "idle" => call.handler = LongestRule(lower(call.filename)).kind

C7_DelimitedFallsToLadder ==
    (pc = "done" /\ call.handler \in {"csv", "tsv"} /\ call.content.open # "ok") =>
        /\ result.kind = "table"
        /\ result = PlainText(caps, call.content, call.filename)

C9_MemberRowsTagged ==
    /\ \A k \in 1..Len(stack) : \A j \in 1..Len(stack[k].frames) :
          LET df == stack[k].frames[j] IN
          /\ {"_file", "_source"} \subseteq df.cols
          /\ \A i \in 1..Len(df.rows) :
                /\ df.rows[i]["_file"] = stack[k].origin[j].name
                /\ df.rows[i]["_source"] = stack[k].filename
    /\ (pc = "done" /\ result.kind = "table" /\ contributed # <<>>) =>
          /\ {"_file", "_source"} \subseteq result.cols
          /\ \A i \in 1..Len(result.rows) :
                /\ result.rows[i]["_source"] = call.filename
                /\ \E j \in 1..Len(contributed) :
                      result.rows[i]["_file"] = contributed[j].name
          /\ \A j \in 1..Len(contributed) : \E i \in 1..Len(result.rows) :
                result.rows[i]["_file"] = contributed[j].name

C9_Witness ==
    /\ pc = "done"
    /\ call.filename = "z.zip"
    /\ result.kind = "table"
    /\ Len(contributed) = 2
    /\ contributed[1].name = "inner.csv"
    /\ contributed[2].name = "in.tar"
    /\ \E i \in 1..Len(result.rows) : result.rows[i]["_file"] = "in.tar"

(* C10: when the content handed to the archive handler opens neither as a  *)
(* zip nor as a tar container, the result is the one-row archive           *)
(* placeholder with _source = filename, for .zip names too.                *)
C10_UnopenableIsPlaceholder ==
    (pc = "done" /\ call.handler = "archive" /\ call.content.open # "ok") =>
        IsPlaceholder(result, "<archive content>", call.filename)

RECURSIVE RowsBefore(_, _)
RowsBefore(fs, i) == IF i <= 1 THEN 0 ELSE RowsBefore(fs, i - 1) + Len(fs[i - 1].rows)

C12_DecodeLadder ==
    (pc = "done" /\ call.handler = "_decode_text_bytes") =>
        LET b == call.content IN
        /\ result.kind = "str"
        /\ result.value =
              IF "utf-8" \in b.dec THEN "text/utf-8"
              ELSE IF "utf-16" \in b.dec THEN "text/utf-16"
              ELSE IF "latin-1" \in b.dec THEN "text/latin-1"
              ELSE IF caps.chardet /\ b.guess = "ok" THEN "text/guess-replace"
              ELSE "text/utf-8-replace"

C12_Witness ==
    /\ pc = "done"
    /\ call.handler = "_decode_text_bytes"
    /\ call.content.dec = {"utf-16", "latin-1"}
    /\ caps.chardet
    /\ call.content.guess = "ok"
    /\ result.value = "text/utf-16"

(* The rows the first n members of origin contributed. *)
RECURSIVE RowsOf(_, _)
RowsOf(origin, n) == IF n = 0 THEN 0 ELSE RowsOf(origin, n - 1) + origin[n].rows

(* The rows of the returned table that came from member k of the archive   *)
(* that is member j of the top-level archive.                              *)
NestedRows(j, k) ==
    {RowsOf(contributed, j - 1) + RowsOf(contributed[j].inner, k - 1) + i :
        i \in 1..contributed[j].inner[k].rows}

(* C13 as stated: a row that came from member m of an archive nested in    *)
(* the top-level archive has _source = the nested archive's name and       *)
(* _file = m's name in the returned table.                                 *)
C13_InnermostSource ==
    (pc = "done" /\ result.kind = "table") =>
        \A j \in 1..Len(contributed) : \A k \in 1..Len(contributed[j].inner) :
            \A i \in NestedRows(j, k) :
                /\ result.rows[i]["_source"] = contributed[j].name
                /\ result.rows[i]["_file"] = contributed[j].inner[k].name

(* C13 amended: a row that came from member m of an archive nested in the  *)
(* top-level archive has _source = the filename of the top-level call and  *)
(* _file = the nested archive's own member name; m's name is not kept.     *)
C13_OutermostSource ==
    (pc = "done" /\ result.kind = "table") =>
        \A j \in 1..Len(contributed) :
            /\ contributed[j].inner # <<>> =>
                  RowsOf(contributed[j].inner, Len(contributed[j].inner)) = contributed[j].rows
            /\ \A k \in 1..Len(contributed[j].inner) : \A i \in NestedRows(j, k) :
                  /\ i \in 1..Len(result.rows)
                  /\ result.rows[i]["_source"] = call.filename
                  /\ result.rows[i]["_file"] = contributed[j].name

C13_Witness ==
    /\ pc = "done"
    /\ call.filename = "z.zip"
    /\ result.kind = "table"
    /\ Len(contributed) = 1
    /\ contributed[1].name = "in.zip"
    /\ Len(contributed[1].inner) = 1
    /\ contributed[1].inner[1].name = "inner.csv"
    /\ contributed[1].inner[1].rows = MaxRows
    /\ result.rows[1]["_file"] = "in.zip"
    /\ result.rows[1]["_source"] = "z.zip"

(* C14: in every archive expansion the number of members read and handed   *)
(* to the recursive load is at most MAX_ARCHIVE_FILES, members that load   *)
(* to an empty table included.                                             *)
C14_ExpandedBound ==
    \A k \in 1..Len(stack) : stack[k].expanded <= MAX_ARCHIVE_FILES

(* The step in which the outermost activation merges its frames and        *)
(* returns.                                                                *)
OutermostReturns ==
    /\ pc = "running"
    /\ Len(stack) = 1
    /\ Top.left = 0 \/ QuotaReached(Top)
    /\ pc' = "done"

C15_Step ==
    OutermostReturns =>
        LET frames == Top.frames
            origin == Top.origin
        IN /\ result'.kind = "table"
           /\ Len(result'.rows) = RowsBefore(frames, Len(frames) + 1)
           /\ \A j \in 1..Len(frames) : \A k \in 1..Len(frames) :
                 j < k => origin[j].pos < origin[k].pos
           /\ \A j \in 1..Len(frames) : \A i \in 1..Len(frames[j].rows) :
                 LET r == result'.rows[RowsBefore(frames, j) + i] IN
                 /\ r["_file"] = origin[j].name
                 /\ \A c \in frames[j].cols : r[ColStr(c)] = frames[j].rows[i][c]
           /\ (\A j \in 1..Len(frames) : \A k \in 1..Len(frames) :
                  j # k => origin[j].name # origin[k].name)
              => \A j \in 1..Len(frames) : \A k \in 1..Len(frames) :
                    \A x \in 1..Len(result'.rows) : \A y \in 1..Len(result'.rows) :
                       (/\ j < k
                        /\ result'.rows[x]["_file"] = origin[j].name
                        /\ result'.rows[y]["_file"] = origin[k].name) => x < y

(* C15: members are visited in the declared order and the merged table     *)
(* keeps it: the frames stand in increasing member position, the returned  *)
(* rows are the frames' rows in that order, each frame's rows in their own *)
(* order, so every row tagged with an earlier member precedes every row    *)
(* tagged with a later one.                                                *)
C15_OrderKept == [][C15_Step]_vars

C15_Witness ==
    /\ pc = "done"
    /\ result.kind = "table"
    /\ Len(contributed) = 2
    /\ contributed[1].name = "note.txt"
    /\ contributed[2].name = "inner.csv"
    /\ contributed[1].pos < contributed[2].pos
    /\ contributed[1].rows = 1
    /\ contributed[2].rows = MaxRows
    /\ result.rows[1]["_file"] = "note.txt"
    /\ result.rows[1 + MaxRows]["_file"] = "inner.csv"

(* C16: for a .json name, every failure of the tabular parse, whatever its *)
(* kind, is followed by the free-form parse and flattening, every failure  *)
(* of that by the single row of decoded text with _source; the handler     *)
(* never raises.                                                           *)
C16_JsonLadder ==
    (pc = "done" /\ call.handler = "json") =>
        LET b == call.content IN
        /\ result.kind = "table"
        /\ b.open # "ok" =>
              IF b.alt = "ok"
              THEN result = SetCol(Parsed("c", b.n), "_source", call.filename)
              ELSE IsPlaceholder(result, _decode_text_bytes(caps, b), call.filename)

(* The examined pages that yield tables. *)
WithTables(b) == {i \in Examined(b) : b.pages[i].tab = "some"}

(* C17: when the PDF opens and no extraction step raises out of the loop,  *)
(* only the first MAX_PDF_PAGES pages are examined, in page order; if an   *)
(* examined page yields tables the result is the table rows of the         *)
(* examined pages, each tagged with its 1-based _page, in page order;      *)
(* otherwise it has exactly one text row per examined page.                *)
C17_PdfPages ==
    LET b == call.content IN
    (/\ pc = "done"
     /\ call.handler = "pdf"
     /\ caps.pdfplumber
     /\ b.open = "ok"
     /\ \A i \in Examined(b) : b.pages[i].tab = "some" \/ b.pages[i].txt = "ok")
    => /\ result.kind = "table"
       /\ IF WithTables(b) # {}
          THEN /\ "_page" \in result.cols
               /\ \A r \in 1..Len(result.rows) :
                     \E i \in WithTables(b) : result.rows[r]["_page"] = ToString(i)
               /\ \A i \in WithTables(b) :
                     Cardinality({r \in 1..Len(result.rows) :
                                     result.rows[r]["_page"] = ToString(i)}) = b.pages[i].n
               /\ \A r \in 1..Len(result.rows) : \A q \in 1..Len(result.rows) :
                     r < q => \E i \in WithTables(b) : \E j \in WithTables(b) :
                                 /\ i <= j
                                 /\ result.rows[r]["_page"] = ToString(i)
                                 /\ result.rows[q]["_page"] = ToString(j)
          ELSE /\ Len(result.rows) = Cardinality(Examined(b))
               /\ \A i \in Examined(b) :
                     /\ result.rows[i]["page"] = ToString(i)
                     /\ result.rows[i]["_source"] = call.filename

C17_Witness ==
    /\ pc = "done"
    /\ call.handler = "pdf"
    /\ caps.pdfplumber
    /\ call.content.open = "ok"
    /\ Len(call.content.pages) > MAX_PDF_PAGES
    /\ call.content.pages[1].tab = "none"
    /\ call.content.pages[1].txt = "ok"
    /\ call.content.pages[MAX_PDF_PAGES].tab = "some"
    /\ call.content.pages[MAX_PDF_PAGES + 1].tab = "some"
    /\ result.kind = "table"
    /\ Len(result.rows) = MaxRows
    /\ result.rows[1]["_page"] = ToString(MAX_PDF_PAGES)

(* C18: when the relational-file or the word-document handler exits, by    *)
(* return or by exception, no temporary file it created is left on disk.   *)
C18_TempFileDeleted ==
    (pc = "done" /\ call.handler \in {"_read_sqlite", "_read_docx"}) =>
        result.tmp # "left"

(* The capability flag a handler consults. *)
Flag(kind) ==
    CASE kind = "pdf" -> "pdfplumber"
      [] kind = "xml" -> "xmltodict"
      [] kind = "html" -> "bs4"
      [] kind = "docx" -> "docx"
      [] OTHER -> "chardet"

(* The capability, were it available, fails on the content b. *)
CapabilityFails(kind, b) ==
    CASE kind = "pdf" -> \/ b.open # "ok"
                         \/ \E i \in Examined(b) :
                               b.pages[i].tab # "some" /\ b.pages[i].txt = "err"
      [] kind = "xml" -> b.open # "ok"
      [] kind = "html" -> b.alt # "ok"
      [] kind = "docx" -> b.open # "ok"
      [] OTHER -> b.guess # "ok"

(* The runtime of the call with one flag set to v. *)
With(flag, v) ==
    [pdfplumber |-> IF flag = "pdfplumber" THEN v ELSE caps.pdfplumber,
     xmltodict |-> IF flag = "xmltodict" THEN v ELSE caps.xmltodict,
     bs4 |-> IF flag = "bs4" THEN v ELSE caps.bs4,
     docx |-> IF flag = "docx" THEN v ELSE caps.docx,
     chardet |-> IF flag = "chardet" THEN v ELSE caps.chardet]

(* C19: for each optional capability, on a content on which the capability *)
(* fails, the handler returns the same result whether the capability is    *)
(* flagged unavailable or is available and fails.                          *)
C19_UnavailableIsFailure ==
    (/\ pc = "done"
     /\ call.handler \in {"pdf", "xml", "html", "docx", "text"}
     /\ CapabilityFails(call.handler, call.content))
    => LoadLeaf(With(Flag(call.handler), FALSE), call.content, call.filename)
         = LoadLeaf(With(Flag(call.handler), TRUE), call.content, call.filename)

(* Activation k, a tar expansion that holds accumulated frames, ends in    *)
(* this step otherwise than by its own return statement.                   *)
TarRaised(k) ==
    /\ pc = "running"
    /\ k <= Len(stack)
    /\ stack[k].family = "tar"
    /\ stack[k].frames # <<>>
    /\ pc' = "done" \/ Len(stack') < k
    /\ ~(k = Len(stack) /\ (Top.left = 0 \/ QuotaReached(Top)))

C20_Step ==
    \A k \in 1..MaxDepth :
        TarRaised(k) =>
            IF k = 1
            THEN IsPlaceholder(result', "<archive content>", call.filename)
            ELSE /\ pc' = "running"
                 /\ Len(stack') = k - 1
                 /\ Len(stack'[k - 1].frames) = Len(stack[k - 1].frames) + 1
                 /\ LET df == stack'[k - 1].frames[Len(stack'[k - 1].frames)] IN
                    /\ df.cols = {"text", "_source", "_file"}
                    /\ Len(df.rows) = 1
                    /\ df.rows[1]["text"] = "<archive content>"
                    /\ df.rows[1]["_file"] = stack[k - 1].cur.name

(* C20: when a step of a tar expansion raises after frames were            *)
(* accumulated, the expansion returns only the one-row archive placeholder *)
(* with _source = the archive's filename: no accumulated row is returned   *)
(* and no exception leaves the expansion.                                  *)
C20_TarFailureIsPlaceholder == [][C20_Step]_vars

C20_Witness ==
    /\ pc = "running"
    /\ Len(stack) = 1
    /\ Top.origin # <<>>
    /\ Top.origin[1].name = "in.tar"
    /\ Top.origin[1].dropped > 0
    /\ Top.origin[1].rows = 1
    /\ Top.frames[1].rows[1]["text"] = "<archive content>"
====
